---- MODULE Spec2Model ----
(***************************************************************************)
(* Model of second_challenge.py: the extended Euclidean algorithm, the     *)
(* modular inverse built on it, and solve_for_primes, the three-stage      *)
(* factor recovery (primary a-coefficients, swap, b-coefficients).         *)
(*                                                                         *)
(* A behaviour is one call of one of the three functions.  extended_gcd    *)
(* and mod_inverse are pure and are applied in one step; solve_for_primes  *)
(* is followed through its source blocks: the inverses of a1 and a2        *)
(* (lines 57-63), the primary stage (lines 65-112) and the fall-back       *)
(* (lines 114-153: swap, then the b-coefficient stage).                    *)
(***************************************************************************)
EXTENDS Integers, Sequences, FiniteSets, TLC

\* ---------------------------------------------------------------- bounds
\* Arguments of the direct calls of extended_gcd and mod_inverse: 0..MaxArg.
MaxArg == 24
\* Moduli of the unconstrained solver inputs: 1..MaxN (ciphertexts 0..N).
MaxN == 15
\* Exponents of the unconstrained solver inputs: 1..MaxE.
MaxE == 2
\* Secret primes of the well-formed solver inputs: the primes in 11..MaxPrime.
MaxPrime == 61
\* Exponents of the well-formed solver inputs: 1..MaxWFE.
MaxWFE == 5

\* ------------------------------------------------------ program constants
a1 == 2
b1 == 3
a2 == 5
b2 == 7

VARIABLES
    pc,           \* "idle", "step1", "step2", "fallback", "done"
    op,           \* the function called: "none" before the call
    arg_a, arg_b, \* arguments of a direct extended_gcd / mod_inverse call
    N, e1, e2, c1, c2,        \* arguments of solve_for_primes
    a1_inv, a2_inv,           \* locals of solve_for_primes
    c1_power, c2_power,
    q_candidate, p_candidate,
    stage,        \* the stage that ended the solve: "none" while running
    ret_kind,     \* "pending", "value", "None" (the failure value), "raise"
    ret_val       \* the returned tuple, <<>> when none

vars == <<pc, op, arg_a, arg_b, N, e1, e2, c1, c2, a1_inv, a2_inv,
          c1_power, c2_power, q_candidate, p_candidate, stage, ret_kind, ret_val>>

\* ------------------------------------------------------- library functions
\* math.gcd on non-negative integers.
RECURSIVE gcd(_, _)
gcd(a, b) == IF b = 0 THEN a ELSE gcd(b, a % b)

\* The built-in three-argument pow: base^exp mod modulus, 0 <= result < modulus.
RECURSIVE pow(_, _, _)
pow(base, exp, modulus) ==
    IF exp = 0 THEN 1 % modulus
    ELSE LET h  == pow(base, exp \div 2, modulus)
             sq == (h * h) % modulus
         IN  IF exp % 2 = 1 THEN (sq * (base % modulus)) % modulus ELSE sq

\* ------------------------------------------------------------ extended_gcd
\* A slip in the back-substitution: the quotient b // a is dropped.
RECURSIVE extended_gcd_noquot(_, _)
extended_gcd_noquot(a, b) ==
    IF a = 0 THEN <<b, 0, 1>>
    ELSE LET r == extended_gcd_noquot(b % a, a)
         IN  <<r[1], r[3] - r[2], r[2]>>

RECURSIVE extended_gcd(_, _)
extended_gcd(a, b) ==
    IF a = 0 THEN <<b, 0, 1>>
    ELSE LET r == extended_gcd(b % a, a)
         IN  <<r[1], r[3] - (b \div a) * r[2], r[2]>>

\* The number of activations of extended_gcd(a, b): one for the call and one
\* for each recursive call of line 27.
RECURSIVE extended_gcd_calls(_, _)
extended_gcd_calls(a, b) ==
    IF a = 0 THEN 1 ELSE 1 + extended_gcd_calls(b % a, a)

\* ------------------------------------------------------------- mod_inverse
\* The result of mod_inverse: raised = TRUE models the Exception of line 34.
\* Slip 1: the Bezout coefficient is returned without the reduction x % m.
mod_inverse_noreduce(a, m) ==
    LET r == extended_gcd(a, m)
    IN  IF r[1] # 1 THEN [raised |-> TRUE, value |-> 0]
        ELSE [raised |-> FALSE, value |-> r[2]]

\* Slip 2: the gcd test is missing, a value is returned for every argument.
mod_inverse_nocheck(a, m) ==
    LET r == extended_gcd(a, m)
    IN  [raised |-> FALSE, value |-> r[2] % m]

mod_inverse(a, m) ==
    LET r == extended_gcd(a, m)
    IN  IF r[1] # 1 THEN [raised |-> TRUE, value |-> 0]
        ELSE [raised |-> FALSE, value |-> r[2] % m]

\* -------------------------------------------------------- solve_for_primes
\* Lines 57-63: the inverses of a1 and a2; an Exception of mod_inverse is
\* caught and ends the solve with the failure value.
\* Slip: only the inverse of a1 is guarded, a2's failure goes unnoticed.
InverseStage_a2unchecked(n) ==
    LET i1 == mod_inverse(a1, n)
        i2 == mod_inverse_nocheck(a2, n)
    IN  IF i1.raised
        THEN [caught |-> TRUE, a1_inv |-> 0, a2_inv |-> 0]
        ELSE [caught |-> FALSE, a1_inv |-> i1.value, a2_inv |-> i2.value]

\* a1_inv is bound on line 59 before line 60 runs: when only the inverse of
\* a2 fails, a1_inv already holds its value at the return of line 63.
InverseStage(n) ==
    LET i1 == mod_inverse(a1, n)
        i2 == mod_inverse(a2, n)
    IN  IF i1.raised
        THEN [caught |-> TRUE, a1_inv |-> 0, a2_inv |-> 0]
        ELSE IF i2.raised
        THEN [caught |-> TRUE, a1_inv |-> i1.value, a2_inv |-> 0]
        ELSE [caught |-> FALSE, a1_inv |-> i1.value, a2_inv |-> i2.value]

\* Lines 65-87: the two terms and the gcd candidate.  raised: the reduction
\* of the exponent modulo N-1 divides by zero (N = 1), a ZeroDivisionError
\* that nothing in the function catches.
\* Slip: a2_inv used for a1_inv in a1_neg_power on line 72.
PrimaryTerms_a2twice(n, x1, x2, y1, y2, inv1, inv2) ==
    IF n - 1 = 0
    THEN [raised |-> TRUE, c1_power |-> 0, c2_power |-> 0, q_candidate |-> 0]
    ELSE LET a2_neg_power == pow(inv2, (x2 * x1) % (n - 1), n)
             a1_neg_power == pow(inv2, (x1 * x2) % (n - 1), n)
             c2p   == pow(y2, x1, n)
             c1p   == pow(y1, x2, n)
             term1 == (a2_neg_power * c2p) % n
             term2 == (a1_neg_power * c1p) % n
         IN  [raised |-> FALSE, c1_power |-> c1p, c2_power |-> c2p,
              q_candidate |-> gcd((term1 - term2) % n, n)]

PrimaryTerms(n, x1, x2, y1, y2, inv1, inv2) ==
    IF n - 1 = 0
    THEN [raised |-> TRUE, c1_power |-> 0, c2_power |-> 0, q_candidate |-> 0]
    ELSE LET a2_neg_power == pow(inv2, (x2 * x1) % (n - 1), n)
             a1_neg_power == pow(inv1, (x1 * x2) % (n - 1), n)
             c2p   == pow(y2, x1, n)
             c1p   == pow(y1, x2, n)
             term1 == (a2_neg_power * c2p) % n
             term2 == (a1_neg_power * c1p) % n
         IN  [raised |-> FALSE, c1_power |-> c1p, c2_power |-> c2p,
              q_candidate |-> gcd((term1 - term2) % n, n)]

\* Lines 89-112: the test of the candidate.  returned: the return of line 112
\* was executed; ret: the pair it returned.
\* Slip 1: "q_candidate >= 1" for "q_candidate > 1" on line 90.
PrimaryAccept_ge1(n, qc) ==
    IF qc >= 1
    THEN IF n % qc = 0
         THEN LET pcand == n \div qc
              IN  IF pcand * qc = n
                  THEN [returned |-> TRUE, p_candidate |-> pcand, ret |-> <<pcand, qc>>]
                  ELSE [returned |-> FALSE, p_candidate |-> pcand, ret |-> <<>>]
         ELSE [returned |-> FALSE, p_candidate |-> 0, ret |-> <<>>]
    ELSE [returned |-> FALSE, p_candidate |-> 0, ret |-> <<>>]

\* Slip 2: "return q_candidate, q_candidate" on line 112.
PrimaryAccept_dupret(n, qc) ==
    IF qc > 1
    THEN IF n % qc = 0
         THEN LET pcand == n \div qc
              IN  IF pcand * qc = n
                  THEN [returned |-> TRUE, p_candidate |-> pcand, ret |-> <<qc, qc>>]
                  ELSE [returned |-> FALSE, p_candidate |-> pcand, ret |-> <<>>]
         ELSE [returned |-> FALSE, p_candidate |-> 0, ret |-> <<>>]
    ELSE [returned |-> FALSE, p_candidate |-> 0, ret |-> <<>>]

PrimaryAccept(n, qc) ==
    IF qc > 1
    THEN IF n % qc = 0
         THEN LET pcand == n \div qc
              IN  IF pcand * qc = n
                  THEN [returned |-> TRUE, p_candidate |-> pcand, ret |-> <<pcand, qc>>]
                  ELSE [returned |-> FALSE, p_candidate |-> pcand, ret |-> <<>>]
         ELSE [returned |-> FALSE, p_candidate |-> 0, ret |-> <<>>]
    ELSE [returned |-> FALSE, p_candidate |-> 0, ret |-> <<>>]

\* Lines 125-153: the b-coefficient stage.  Every Exception raised inside it
\* (no inverse, a zero modulus N-1) is caught on line 149, and the solve ends
\* with the failure value.
AltStage(n, x1, x2, c1p, c2p, p0, q0) ==
    LET i1 == mod_inverse(b1, n)
        i2 == mod_inverse(b2, n)
    IN  IF i1.raised
        THEN [stage |-> "exhausted", kind |-> "None", ret |-> <<>>,
              p_candidate |-> p0, q_candidate |-> q0]
        ELSE IF i2.raised
        THEN [stage |-> "exhausted", kind |-> "None", ret |-> <<>>,
              p_candidate |-> p0, q_candidate |-> q0]
        ELSE IF n - 1 = 0
        THEN [stage |-> "exhausted", kind |-> "None", ret |-> <<>>,
              p_candidate |-> p0, q_candidate |-> q0]
        ELSE LET b2_neg_power == pow(i2.value, (x2 * x1) % (n - 1), n)
                 b1_neg_power == pow(i1.value, (x1 * x2) % (n - 1), n)
                 term1 == (b2_neg_power * c2p) % n
                 term2 == (b1_neg_power * c1p) % n
                 pcand == gcd((term1 - term2) % n, n)
             IN  IF pcand > 1
                 THEN IF n % pcand = 0
                      THEN IF pcand * (n \div pcand) = n
                           THEN [stage |-> "alt", kind |-> "value",
                                 ret |-> <<pcand, n \div pcand>>,
                                 p_candidate |-> pcand, q_candidate |-> n \div pcand]
                           ELSE [stage |-> "exhausted", kind |-> "None", ret |-> <<>>,
                                 p_candidate |-> pcand, q_candidate |-> n \div pcand]
                      ELSE [stage |-> "exhausted", kind |-> "None", ret |-> <<>>,
                            p_candidate |-> pcand, q_candidate |-> q0]
                 ELSE [stage |-> "exhausted", kind |-> "None", ret |-> <<>>,
                       p_candidate |-> pcand, q_candidate |-> q0]

\* Lines 114-153: the swap of the candidate's role, then the b-coefficient
\* stage.  N // 0 raises ZeroDivisionError, which leaves the function.
FallbackStage(n, x1, x2, c1p, c2p, qc) ==
    IF qc = 0
    THEN [stage |-> "swap", kind |-> "raise", ret |-> <<>>,
          p_candidate |-> qc, q_candidate |-> qc]
    ELSE IF qc * (n \div qc) = n
    THEN [stage |-> "swap", kind |-> "value", ret |-> <<qc, n \div qc>>,
          p_candidate |-> qc, q_candidate |-> n \div qc]
    ELSE AltStage(n, x1, x2, c1p, c2p, qc, n \div qc)

\* ------------------------------------------------------------------ inputs
Divides(d, n) == n % d = 0

IsPrime(n) == n > 1 /\ \A d \in 2..(n - 1) : ~Divides(d, n)

\* The primes coprime to 2, 3, 5 and 7 within the bound.
WFPrimes == {n \in 11..MaxPrime : IsPrime(n)}

\* The ciphertexts of the defining equations (docstring, lines 44-45).
Cipher1(p, q, x1) == pow(a1 * p + b1 * q, x1, p * q)
Cipher2(p, q, x2) == pow(a2 * p + b2 * q, x2, p * q)

WellFormedInputs ==
    {<<p * q, x1, x2, Cipher1(p, q, x1), Cipher2(p, q, x2)>> :
        p \in WFPrimes, q \in WFPrimes, x1 \in 1..MaxWFE, x2 \in 1..MaxWFE}
    \ {<<p * p, x1, x2, Cipher1(p, p, x1), Cipher2(p, p, x2)>> :
        p \in WFPrimes, x1 \in 1..MaxWFE, x2 \in 1..MaxWFE}

\* Every input of the solver's contract within the bounds: N >= 1,
\* e1, e2 >= 1, c1, c2 >= 0 (ciphertexts up to N itself, one past the residues).
ContractInputs ==
    UNION {{<<n, x1, x2, y1, y2>> :
              x1 \in 1..MaxE, x2 \in 1..MaxE, y1 \in 0..n, y2 \in 0..n} :
           n \in 1..MaxN}

SolveInputs == ContractInputs \cup WellFormedInputs

\* ----------------------------------------------------------------- actions
Init ==
    /\ pc = "idle" /\ op = "none"
    /\ arg_a = 0 /\ arg_b = 0
    /\ N = 0 /\ e1 = 0 /\ e2 = 0 /\ c1 = 0 /\ c2 = 0
    /\ a1_inv = 0 /\ a2_inv = 0 /\ c1_power = 0 /\ c2_power = 0
    /\ q_candidate = 0 /\ p_candidate = 0
    /\ stage = "none" /\ ret_kind = "pending" /\ ret_val = <<>>

solveLocals == <<a1_inv, a2_inv, c1_power, c2_power, q_candidate, p_candidate>>
solveArgs == <<N, e1, e2, c1, c2>>

\* A direct call extended_gcd(a, b), lines 22-28.
CallExtendedGcd ==
    /\ pc = "idle"
    /\ \E a \in 0..MaxArg, b \in 0..MaxArg :
          /\ arg_a' = a /\ arg_b' = b
          /\ ret_val' = extended_gcd(a, b)
    /\ op' = "extended_gcd" /\ pc' = "done" /\ ret_kind' = "value"
    /\ UNCHANGED <<solveArgs, solveLocals, stage>>

\* A direct call mod_inverse(a, m), lines 30-36.
CallModInverse ==
    /\ pc = "idle"
    /\ \E a \in 0..MaxArg, m \in 1..MaxArg :
          LET r == mod_inverse(a, m)
          IN  /\ arg_a' = a /\ arg_b' = m
              /\ ret_kind' = IF r.raised THEN "raise" ELSE "value"
              /\ ret_val' = IF r.raised THEN <<>> ELSE <<r.value>>
    /\ op' = "mod_inverse" /\ pc' = "done"
    /\ UNCHANGED <<solveArgs, solveLocals, stage>>

\* The call solve_for_primes(N, e1, e2, c1, c2), lines 38-55.
CallSolve ==
    /\ pc = "idle"
    /\ \E i \in SolveInputs :
          /\ N' = i[1] /\ e1' = i[2] /\ e2' = i[3] /\ c1' = i[4] /\ c2' = i[5]
    /\ op' = "solve_for_primes" /\ pc' = "step1"
    /\ UNCHANGED <<arg_a, arg_b, solveLocals, stage, ret_kind, ret_val>>

\* Step 1, lines 57-63.
Step1 ==
    /\ pc = "step1"
    /\ LET r == InverseStage(N)
       IN  /\ a1_inv' = r.a1_inv /\ a2_inv' = r.a2_inv
           /\ pc' = IF r.caught THEN "done" ELSE "step2"
           /\ stage' = IF r.caught THEN "inverse" ELSE stage
           /\ ret_kind' = IF r.caught THEN "None" ELSE ret_kind
    /\ UNCHANGED <<op, arg_a, arg_b, solveArgs, c1_power, c2_power,
                   q_candidate, p_candidate, ret_val>>

\* Step 2, lines 65-112.
Step2 ==
    /\ pc = "step2"
    /\ LET t == PrimaryTerms(N, e1, e2, c1, c2, a1_inv, a2_inv)
           r == PrimaryAccept(N, t.q_candidate)
       IN  /\ c1_power' = t.c1_power /\ c2_power' = t.c2_power
           /\ q_candidate' = t.q_candidate
           /\ p_candidate' = IF t.raised THEN p_candidate ELSE r.p_candidate
           /\ pc' = IF t.raised THEN "done"
                    ELSE IF r.returned THEN "done" ELSE "fallback"
           /\ stage' = IF t.raised THEN "primary"
                       ELSE IF r.returned THEN "primary" ELSE stage
           /\ ret_kind' = IF t.raised THEN "raise"
                          ELSE IF r.returned THEN "value" ELSE ret_kind
           /\ ret_val' = IF t.raised THEN <<>> ELSE r.ret
    /\ UNCHANGED <<op, arg_a, arg_b, solveArgs, a1_inv, a2_inv>>

\* Lines 114-153.
Fallback ==
    /\ pc = "fallback"
    /\ LET r == FallbackStage(N, e1, e2, c1_power, c2_power, q_candidate)
       IN  /\ p_candidate' = r.p_candidate /\ q_candidate' = r.q_candidate
           /\ stage' = r.stage /\ ret_kind' = r.kind /\ ret_val' = r.ret
    /\ pc' = "done"
    /\ UNCHANGED <<op, arg_a, arg_b, solveArgs, a1_inv, a2_inv, c1_power, c2_power>>

Next == CallExtendedGcd \/ CallModInverse \/ CallSolve \/ Step1 \/ Step2 \/ Fallback

Spec == Init /\ [][Next]_vars

\* ------------------------------------------------- reference definitions
\* The mathematical gcd, by enumeration of the common divisors (gcd(0,0) = 0).
CommonDivisors(a, b) ==
    {d \in 1..(a + b) : Divides(d, a) /\ Divides(d, b)}

GcdRef(a, b) ==
    IF a + b = 0 THEN 0
    ELSE CHOOSE d \in CommonDivisors(a, b) : \A k \in CommonDivisors(a, b) : k <= d

\* A small coefficient a >= 1 is invertible modulo n iff they share no divisor.
Invertible(a, n) == \A d \in 2..a : ~(Divides(d, a) /\ Divides(d, n))

SolveDone == op = "solve_for_primes" /\ pc = "done"

\* The solve was given ciphertexts built from the distinct primes p, q.
BuiltFrom(p, q) ==
    /\ p # q
    /\ N = p * q
    /\ c1 = Cipher1(p, q, e1)
    /\ c2 = Cipher2(p, q, e2)

\* ------------------------------------------------------------------ claims
\* C1: for N = p*q with p, q distinct primes coprime to 2, 3, 5, 7, any
\* exponents e1, e2 >= 1 and ciphertexts built per the defining equations,
\* solve_for_primes returns (p, q) or (q, p), never the failure value and
\* never another pair.
C1_ReturnsThePrimes ==
    SolveDone =>
        \A p \in WFPrimes, q \in WFPrimes :
            BuiltFrom(p, q) =>
                /\ ret_kind = "value"
                /\ ret_val \in {<<p, q>>, <<q, p>>}

\* C2: whenever solve_for_primes returns a pair, the product of its two
\* components is N exactly, whichever stage returned it.
C2_ProductReconstructs ==
    (SolveDone /\ ret_kind = "value") =>
        /\ Len(ret_val) = 2
        /\ ret_val[1] * ret_val[2] = N

C2_Witness ==
    /\ SolveDone /\ ret_kind = "value" /\ stage = "primary"
    /\ ret_val[1] > 1 /\ ret_val[2] > 1
    /\ N <= MaxN

\* C3: with e1 = e2 = 1 and c1 = (2p+3q) mod N, c2 = (5p+7q) mod N for
\* distinct primes p, q coprime to 2, 3, 5, 7, the primary stage returns the
\* factor set {p, q}, the gcd candidate being the second component; for
\* N = 3233 this is the set {61, 53}.
C3_UnitExponentsPrimary ==
    (SolveDone /\ e1 = 1 /\ e2 = 1) =>
        \A p \in WFPrimes, q \in WFPrimes :
            (/\ p # q
             /\ N = p * q
             /\ c1 = (a1 * p + b1 * q) % N
             /\ c2 = (a2 * p + b2 * q) % N) =>
                /\ ret_kind = "value"
                /\ stage = "primary"
                /\ {ret_val[1], ret_val[2]} = {p, q}
                /\ ret_val[2] = q_candidate

C3_Witness ==
    /\ SolveDone /\ e1 = 1 /\ e2 = 1
    /\ N = 3233 /\ c1 = 281 /\ c2 = 676
    /\ stage = "primary" /\ ret_val = <<61, 53>>

\* C4: a gcd candidate of 1 or of N is accepted by no stage, so every pair
\* (p, q) that solve_for_primes returns has 1 < p < N and 1 < q < N.
C4_NoTrivialPair ==
    (SolveDone /\ ret_kind = "value") =>
        /\ 1 < ret_val[1] /\ ret_val[1] < N
        /\ 1 < ret_val[2] /\ ret_val[2] < N

\* C5 as claimed: when a1 = 2 or a2 = 5 is not invertible modulo N, the
\* failure is caught and the solve falls through: a later strategy (swap or
\* b-coefficients) is attempted before the outcome is handed to the caller.
C5_FallsThroughToLaterStage ==
    (SolveDone /\ ~(Invertible(a1, N) /\ Invertible(a2, N))) =>
        /\ ret_kind # "raise"
        /\ stage \in {"swap", "alt", "exhausted"}

\* C5 as amended: when a1 = 2 or a2 = 5 is not invertible modulo N, the
\* failure is caught inside the solver without raising and the failure value
\* is returned at once; no later stage runs (no term, no candidate computed).
C5_InverseFailureIsFinal ==
    (SolveDone /\ ~(Invertible(a1, N) /\ Invertible(a2, N))) =>
        /\ ret_kind = "None"
        /\ stage = "inverse"
        /\ ret_val = <<>>
        /\ <<c1_power, c2_power, q_candidate, p_candidate>> = <<0, 0, 0, 0>>

C5_Witness ==
    /\ SolveDone /\ N % 2 = 0 /\ Invertible(b1, N) /\ Invertible(b2, N)
    /\ ret_kind = "None" /\ stage = "inverse"

\* C6: for every input of the contract's domain (N >= 1, e1, e2 >= 1,
\* c1, c2 >= 0) the solve ends with a pair or the failure value; no error of
\* an arithmetic step leaves the solver.
C6_NoEscapingError ==
    SolveDone => ret_kind \in {"value", "None"}

\* C7: for m > 1 and a >= 0 with gcd(a, m) = 1 (a >= m included),
\* mod_inverse(a, m) returns x with 0 <= x < m and (a * x) mod m = 1.
C7_InverseCorrect ==
    (/\ op = "mod_inverse" /\ pc = "done"
     /\ arg_b > 1 /\ GcdRef(arg_a, arg_b) = 1) =>
        /\ ret_kind = "value"
        /\ Len(ret_val) = 1
        /\ 0 <= ret_val[1] /\ ret_val[1] < arg_b
        /\ (arg_a * ret_val[1]) % arg_b = 1

C7_Witness ==
    /\ op = "mod_inverse" /\ pc = "done"
    /\ arg_a = 17 /\ arg_b = 5 /\ ret_val = <<3>>

\* C8: for a >= 0 and m >= 1, mod_inverse(a, m) raises whenever
\* gcd(a, m) # 1 (a = 0 with m > 1 and a multiple of m included) and then
\* returns no value.
C8_NoInverseRaises ==
    (/\ op = "mod_inverse" /\ pc = "done"
     /\ GcdRef(arg_a, arg_b) # 1) =>
        /\ ret_kind = "raise"
        /\ ret_val = <<>>

C8_Witness ==
    /\ op = "mod_inverse" /\ pc = "done"
    /\ arg_a = 0 /\ arg_b > 1 /\ ret_kind = "raise"

\* C9: for a, b >= 0, extended_gcd(a, b) terminates, the first argument
\* strictly decreasing along the recursion (at most a + 1 activations), and
\* returns (g, x, y) with g = gcd(a, b) and a*x + b*y = g.
C9_ExtendedGcdBezout ==
    (op = "extended_gcd" /\ pc = "done") =>
        /\ Len(ret_val) = 3
        /\ ret_val[1] = GcdRef(arg_a, arg_b)
        /\ arg_a * ret_val[2] + arg_b * ret_val[3] = ret_val[1]
        /\ extended_gcd_calls(arg_a, arg_b) <= arg_a + 1

C9_Witness ==
    /\ op = "extended_gcd" /\ pc = "done"
    /\ arg_a = 18 /\ arg_b = 12 /\ ret_val[1] = 6
    /\ extended_gcd_calls(arg_a, arg_b) = 4

\* C10: for N >= 2 with 2 and 5 invertible modulo N, the solve always
\* returns a pair, from the primary stage or from the swap stage; the swap
\* stage is taken exactly when the primary gcd candidate is 1 and then
\* returns (1, N); the b-coefficient stage and the failure outcome are never
\* reached.
C10_PrimaryOrSwap ==
    (/\ op = "solve_for_primes"
     /\ N >= 2 /\ Invertible(a1, N) /\ Invertible(a2, N)) =>
        /\ pc = "fallback" => q_candidate = 1
        /\ pc = "done" =>
              /\ ret_kind = "value"
              /\ stage \in {"primary", "swap"}
              /\ stage = "primary" => q_candidate # 1
              /\ stage = "swap" => (p_candidate = 1 /\ ret_val = <<1, N>>)

C10_Witness ==
    /\ SolveDone /\ N >= 2 /\ Invertible(a1, N) /\ Invertible(a2, N)
    /\ stage = "swap" /\ ret_val = <<1, N>>

====
